---- MODULE Spec2Model ----
(***************************************************************************)
(* A model of the static-site build of src/src/build.rs and                *)
(* src/src/build/djot.rs: paths and content slugs, the slug order, the     *)
(* metadata store and its subpage range, template lookup, the transform    *)
(* plan, frontmatter extraction and the build loop.                        *)
(*                                                                         *)
(* Strings (OsString, String) are sequences of byte codes, so that the     *)
(* byte-wise order of Rust's Ord for OsStr and the search for the last     *)
(* dot of a file name are computed, not assumed.  A path is the sequence   *)
(* of its normal components.  Option<T> is <<>> (None) or <<v>> (Some v).  *)
(***************************************************************************)
EXTENDS Integers, Sequences, FiniteSets, TLC

VARIABLES
    pc,          \* position of the running operation
    inp,         \* inputs of a pure function under check
    out,         \* results of the pure function under check
    input,       \* build: gathered files, relative path -> file (BuildDirFiles.files)
    release,     \* build: BuildCmd.release
    site,        \* build: Site (metadata, content files, templates) after parse
    cur,         \* build: the content slug whose process call is running, as Option
    step,        \* build: index of the next step of cur's plan
    content,     \* build: process's local `content`
    ctx,         \* build: the TemplateContext of the last ApplyTemplate, as Option
    processed,   \* build: slugs whose process call returned Ok, in call order
    output,      \* build: the output tree, path -> content written
    result       \* build: build's return value, as Option

vars == <<pc, inp, out, input, release, site, cur, step, content, ctx,
          processed, output, result>>

(***************************************************************************)
(* Bounds of the model                                                     *)
(***************************************************************************)
MaxDepth == 1      \* directory depth of the generated paths
MaxDots == 2       \* dots in a generated file name
MaxTemplates == 3  \* template files of a template index under lookup
MaxBlocks == 2     \* blocks of a parsed document
MaxFiles == 3      \* gathered files of a build

(***************************************************************************)
(* Strings                                                                 *)
(***************************************************************************)
Code ==
    ("." :> 46) @@ ("a" :> 97) @@ ("b" :> 98) @@ ("c" :> 99) @@ ("d" :> 100)
    @@ ("e" :> 101) @@ ("g" :> 103) @@ ("h" :> 104) @@ ("i" :> 105)
    @@ ("j" :> 106) @@ ("l" :> 108) @@ ("m" :> 109) @@ ("n" :> 110)
    @@ ("o" :> 111) @@ ("p" :> 112) @@ ("s" :> 115) @@ ("t" :> 116)
    @@ ("x" :> 120)

\* The bytes of a string literal given as a tuple of one-letter strings.
Str(t) == IF Len(t) = 0 THEN <<>> ELSE [i \in 1..Len(t) |-> Code[t[i]]]

S_empty == <<>>
S_dot == Str(<<".">>)
S_a == Str(<<"a">>)
S_b == Str(<<"b">>)
S_c == Str(<<"c">>)
S_index == Str(<<"i", "n", "d", "e", "x">>)
S_page == Str(<<"p", "a", "g", "e">>)
S_dj == Str(<<"d", "j">>)
S_html == Str(<<"h", "t", "m", "l">>)
S_css == Str(<<"c", "s", "s">>)
S_content == Str(<<"c", "o", "n", "t", "e", "n", "t">>)
S_templates == Str(<<"t", "e", "m", "p", "l", "a", "t", "e", "s">>)
S_static == Str(<<"s", "t", "a", "t", "i", "c">>)

None == <<>>
Some(v) == <<v>>
IsSome(o) == Len(o) = 1
Unwrap(o) == o[1]

IntCmp(m, n) == IF m < n THEN "Less" ELSE IF m = n THEN "Equal" ELSE "Greater"

SetMin(S) == CHOOSE m \in S : \A n \in S : m <= n

\* Ord for OsStr / str: byte-wise lexicographic, a proper prefix is less.
BytesCmp(s, t) ==
    LET n == IF Len(s) < Len(t) THEN Len(s) ELSE Len(t)
        diff == {i \in 1..n : s[i] # t[i]}
    IN  IF diff = {} THEN IntCmp(Len(s), Len(t))
        ELSE IntCmp(s[SetMin(diff)], t[SetMin(diff)])

\* Ord for Option<OsString>: None is less than every Some.
OptionCmp(o, p) ==
    IF ~IsSome(o) THEN (IF IsSome(p) THEN "Less" ELSE "Equal")
    ELSE IF ~IsSome(p) THEN "Greater"
    ELSE BytesCmp(Unwrap(o), Unwrap(p))

Reverse(ord) ==
    IF ord = "Less" THEN "Greater" ELSE IF ord = "Greater" THEN "Less" ELSE "Equal"

\* Ordering::then_with
ThenWith(ord, next) == IF ord = "Equal" THEN next ELSE ord

(***************************************************************************)
(* std::path over relative paths of normal components                      *)
(***************************************************************************)
\* Ord for Path: lexicographic over the components.
PathCmp(p, q) ==
    LET n == IF Len(p) < Len(q) THEN Len(p) ELSE Len(q)
        diff == {i \in 1..n : p[i] # q[i]}
    IN  IF diff = {} THEN IntCmp(Len(p), Len(q))
        ELSE BytesCmp(p[SetMin(diff)], q[SetMin(diff)])

Front(s) == SubSeq(s, 1, Len(s) - 1)
Last(s) == s[Len(s)]

\* Path::parent
Parent(p) == IF Len(p) = 0 THEN None ELSE Some(Front(p))

\* Path::file_name: none for the empty path and for a path ending in ".."
FileName(p) ==
    IF Len(p) = 0 \/ Last(p) = S_dot \o S_dot THEN None ELSE Some(Last(p))

\* Path::join with a relative path
Join(p, q) == p \o q

\* The path of a file name in a directory, and the name stem.ext
P(dir, name) == Join(dir, <<name>>)
N(stem, ext) == stem \o S_dot \o ext

\* rsplit_file_at_dot: <<before, after>> around the last dot of a file name
DotPositions(f) == {i \in 1..Len(f) : f[i] = S_dot[1]}

SplitFileAtDot(f) ==
    IF f = S_dot \o S_dot THEN <<Some(f), None>>
    ELSE IF DotPositions(f) = {} THEN <<None, Some(f)>>
    ELSE LET k == CHOOSE i \in DotPositions(f) : \A j \in DotPositions(f) : j <= i
             before == SubSeq(f, 1, k - 1)
             after == SubSeq(f, k + 1, Len(f))
         IN  IF before = S_empty THEN <<Some(f), None>>
             ELSE <<Some(before), Some(after)>>

\* Path::file_stem: before.or(after)
FileStem(p) ==
    LET or(before, after) == IF IsSome(before) THEN before ELSE after
        stem(ba) == or(ba[1], ba[2])
        of(file_name) == IF ~IsSome(file_name) THEN None
                         ELSE stem(SplitFileAtDot(Unwrap(file_name)))
    IN  of(FileName(p))

\* Path::extension: before.and(after)
Extension(p) ==
    LET and(before, after) == IF IsSome(before) THEN after ELSE None
        extension(ba) == and(ba[1], ba[2])
        of(file_name) == IF ~IsSome(file_name) THEN None
                         ELSE extension(SplitFileAtDot(Unwrap(file_name)))
    IN  of(FileName(p))

\* PathBuf::set_extension: the file name is cut back to its stem, then
\* "." and the extension are pushed unless the extension is empty.
SetExtension(p, ext) ==
    LET set(file_stem) ==
            IF ~IsSome(file_stem) THEN p
            ELSE Append(Front(p), IF ext = S_empty THEN Unwrap(file_stem)
                                  ELSE Unwrap(file_stem) \o S_dot \o ext)
    IN  set(FileStem(p))

(***************************************************************************)
(* ContentSlug                                                             *)
(***************************************************************************)
Index == <<"Index">>
Other(name) == <<"Other", name>>
IsIndex(stem) == stem[1] = "Index"

Ok(v) == [ok |-> TRUE, val |-> v]
Err(e) == [ok |-> FALSE, err |-> e]

\* A variant of ContentSlug::from_path that leaves the extension out of
\* the slug
from_path_NoExtension(path) ==
    LET new(parent, stem) ==
            IF ~IsSome(stem) THEN Err("no file name")
            ELSE Ok([parent |-> IF IsSome(parent) THEN Unwrap(parent) ELSE <<>>,
                     stem |-> IF Unwrap(stem) = S_index THEN Index
                              ELSE Other(Unwrap(stem)),
                     extension |-> None])
    IN  new(Parent(path), FileStem(path))

\* ContentSlug::from_path
from_path(path) ==
    LET new(parent, stem) ==
            IF ~IsSome(stem) THEN Err("no file name")
            ELSE Ok([parent |-> IF IsSome(parent) THEN Unwrap(parent) ELSE <<>>,
                     stem |-> IF Unwrap(stem) = S_index THEN Index
                              ELSE Other(Unwrap(stem)),
                     extension |-> Extension(path)])
    IN  new(Parent(path), FileStem(path))

\* ContentSlug::as_path
as_path(slug) ==
    SetExtension(
        Join(slug.parent, <<IF IsIndex(slug.stem) THEN S_index ELSE slug.stem[2]>>),
        IF IsSome(slug.extension) THEN Unwrap(slug.extension) ELSE S_empty)

\* A stem order whose mixed arms are exchanged: Index before every Other.
StemCmpIndexFirst(this, other) ==
    IF IsIndex(this) /\ IsIndex(other) THEN "Equal"
    ELSE IF ~IsIndex(this) /\ ~IsIndex(other) THEN BytesCmp(this[2], other[2])
    ELSE IF IsIndex(this) THEN "Less"
    ELSE "Greater"

\* impl Ord for ContentSlugStem
StemCmp(this, other) ==
    IF IsIndex(this) /\ IsIndex(other) THEN "Equal"
    ELSE IF ~IsIndex(this) /\ ~IsIndex(other) THEN BytesCmp(this[2], other[2])
    ELSE IF IsIndex(this) THEN "Greater"
    ELSE "Less"

\* A slug order whose parent comparison is not reversed: a directory before
\* the directories under it.
cmp_ParentForward(self, other) ==
    ThenWith(ThenWith(PathCmp(self.parent, other.parent),
                      StemCmp(self.stem, other.stem)),
             OptionCmp(self.extension, other.extension))

\* impl Ord for ContentSlug
cmp(self, other) ==
    ThenWith(ThenWith(Reverse(PathCmp(self.parent, other.parent)),
                      StemCmp(self.stem, other.stem)),
             OptionCmp(self.extension, other.extension))

Lt(a, b) == cmp(a, b) = "Less"

\* ContentSlug::make_subpage_range, as <<start, end>> of the half-open range
make_subpage_range(self) ==
    IF IsIndex(self.stem)
    THEN <<[parent |-> self.parent, stem |-> Other(S_empty), extension |-> None], self>>
    ELSE LET parent == Join(self.parent, <<self.stem[2]>>)
         IN  <<[parent |-> parent, stem |-> Other(S_empty), extension |-> None],
               [parent |-> parent, stem |-> Index, extension |-> None]>>

(***************************************************************************)
(* Templates: the index is the set of its keys, paths under templates/     *)
(***************************************************************************)
\* The loop of find_template: page.<ext> in dir, then in its parents
RECURSIVE PageWalk(_, _, _)
PageWalk(files, dir, extension) ==
    LET look(page_path, parent) ==
            IF page_path \in files THEN Some(page_path)
            ELSE IF dir = <<>> THEN None
            ELSE PageWalk(files, IF IsSome(parent) THEN Unwrap(parent) ELSE <<>>,
                          extension)
    IN  look(SetExtension(Join(dir, <<S_page>>), extension), Parent(dir))

\* Templates::find_template
find_template(files, slug, extension) ==
    LET get(slug_path) ==
            IF slug_path \in files THEN Some(slug_path)
            ELSE PageWalk(files, slug.parent, extension)
    IN  get(SetExtension(as_path(slug), extension))

(***************************************************************************)
(* ContentFile                                                             *)
(***************************************************************************)
Djot == <<"Djot">>
Html == <<"Html">>
OtherType(ext) == <<"Other", ext>>

\* MediaType::extension
MediaExtension(media_type) ==
    IF media_type[1] = "Djot" THEN S_dj
    ELSE IF media_type[1] = "Html" THEN S_html
    ELSE IF IsSome(media_type[2]) THEN Unwrap(media_type[2]) ELSE S_empty

\* from_input with its two plan steps pushed in the other order.
from_input_TemplateFirst(full_path) ==
    LET media_type(ext) ==
            IF ext = Some(S_dj) THEN Djot
            ELSE IF ext = Some(S_html) THEN Html
            ELSE OtherType(ext)
        new(current_media_type) ==
            [input |-> full_path,
             original_media_type |-> current_media_type,
             current_media_type |-> current_media_type,
             plan |-> <<>>]
        if_djot(file) ==
            IF file.current_media_type[1] = "Djot"
            THEN [file EXCEPT !.plan = Append(@, "RenderDjot"),
                              !.current_media_type = Html]
            ELSE file
        if_html(file) ==
            IF file.current_media_type[1] = "Html"
            THEN [file EXCEPT !.plan = Append(@, "ApplyTemplate")]
            ELSE file
    IN  if_djot(if_html(new(media_type(Extension(full_path)))))

\* ContentFile::from_input; the BuildFile is its full path
from_input(full_path) ==
    LET media_type(ext) ==
            IF ext = Some(S_dj) THEN Djot
            ELSE IF ext = Some(S_html) THEN Html
            ELSE OtherType(ext)
        new(current_media_type) ==
            [input |-> full_path,
             original_media_type |-> current_media_type,
             current_media_type |-> current_media_type,
             plan |-> <<>>]
        if_djot(file) ==
            IF file.current_media_type[1] = "Djot"
            THEN [file EXCEPT !.plan = Append(@, "RenderDjot"),
                              !.current_media_type = Html]
            ELSE file
        if_html(file) ==
            IF file.current_media_type[1] = "Html"
            THEN [file EXCEPT !.plan = Append(@, "ApplyTemplate")]
            ELSE file
    IN  if_html(if_djot(new(media_type(Extension(full_path)))))

\* ContentFile::output_filename
output_filename(file) ==
    LET name(file_name) == IF IsSome(file_name) THEN Unwrap(file_name) ELSE S_empty
    IN  name(FileName(SetExtension(file.input,
                                   MediaExtension(file.current_media_type))))

\* ContentFile::is_article
is_article(file) == file.original_media_type[1] = "Djot"

(***************************************************************************)
(* Metadata and the metadata store (a function from slugs to records)      *)
(***************************************************************************)
\* A variant of Metadata::new that hands the flag to templates as it is
MetadataNew_DebugIsRelease(rel, slug, content_file) ==
    [frontmatter |-> None,
     title |-> None,
     debug |-> rel,
     url_path |-> [root |-> TRUE,
                   rel |-> Join(slug.parent, <<output_filename(content_file)>>)],
     slug |-> slug,
     is_article |-> is_article(content_file),
     bibliography_file |-> None]

\* Metadata::new; url_path is "/" joined with the relative output path
MetadataNew(rel, slug, content_file) ==
    [frontmatter |-> None,
     title |-> None,
     debug |-> ~rel,
     url_path |-> [root |-> TRUE,
                   rel |-> Join(slug.parent, <<output_filename(content_file)>>)],
     slug |-> slug,
     is_article |-> is_article(content_file),
     bibliography_file |-> None]

\* The ascending sequence of a set of slugs: the iteration order of a
\* BTreeMap keyed by ContentSlug
RECURSIVE SortSlugs(_)
SortSlugs(S) ==
    IF S = {} THEN <<>>
    ELSE LET least == CHOOSE m \in S : \A n \in S : n = m \/ Lt(m, n)
         IN  <<least>> \o SortSlugs(S \ {least})

\* MetadataContainer::subpages: the records of the keys in start..end
subpages(metadata, slug) ==
    LET keys(range) == {k \in DOMAIN metadata : ~Lt(k, range[1]) /\ Lt(k, range[2])}
        records(sorted) == [i \in 1..Len(sorted) |-> metadata[sorted[i]]]
    IN  records(SortSlugs(keys(make_subpage_range(slug))))

(***************************************************************************)
(* jotdown events.  A text is a sequence of one-letter strings.            *)
(***************************************************************************)
Start(container) == <<"Start", container>>
End(container) == <<"End", container>>
EvStr(text) == <<"Str", text>>
Blankline == <<"Blankline">>

RawBlock(format) == <<"RawBlock", format>>
RawInline(format) == <<"RawInline", format>>
Heading(level) == <<"Heading", level>>
Section(id) == <<"Section", id>>
Div(class) == <<"Div", class>>
Paragraph == <<"Paragraph">>
Emphasis == <<"Emphasis">>

IsStartOf(event, container) == event[1] = "Start" /\ event[2] = container
IsEndOf(event, container) == event[1] = "End" /\ event[2] = container

\* The events of a slice from index `from` (1-based) to the end
From(events, from) == SubSeq(events, from, Len(events))

\* collect_strings: the leading Str events of a slice, as <<content, count>>
RECURSIVE collect_strings(_)
collect_strings(events) ==
    IF Len(events) = 0 \/ Head(events)[1] # "Str" THEN <<<<>>, 0>>
    ELSE LET rest == collect_strings(Tail(events))
         IN  <<Head(events)[2] \o rest[1], rest[2] + 1>>

(***************************************************************************)
(* serde_json::from_str into tera::Value, on a small JSON: the number 1,   *)
(* and objects { m, m, ... } whose members m are b ("bibliography": "r"),  *)
(* n ("bibliography": 1) and t ("title": "x").  Every other text is an     *)
(* error.  A later member of the same key replaces an earlier one.         *)
(***************************************************************************)
JsonMembers == {"b", "n", "t"}

MembersOk(inner) ==
    \/ Len(inner) = 0
    \/ /\ Len(inner) % 2 = 1
       /\ \A i \in 1..Len(inner) :
              IF i % 2 = 1 THEN inner[i] \in JsonMembers ELSE inner[i] = ","

MemberKey(m) == IF m = "t" THEN "title" ELSE "bibliography"
MemberValue(m) ==
    IF m = "b" THEN [kind |-> "String", text |-> <<"r">>]
    ELSE IF m = "n" THEN [kind |-> "Number", text |-> <<"1">>]
    ELSE [kind |-> "String", text |-> <<"x">>]

JsonGet(inner, key) ==
    LET at == {i \in 1..Len(inner) : inner[i] \in JsonMembers /\ MemberKey(inner[i]) = key}
    IN  IF at = {} THEN None
        ELSE Some(MemberValue(inner[CHOOSE i \in at : \A j \in at : j <= i]))

parse_json(text) ==
    IF text = <<"1">> THEN Ok([kind |-> "Number", text |-> <<"1">>])
    ELSE IF /\ Len(text) >= 2
            /\ text[1] = "{"
            /\ text[Len(text)] = "}"
            /\ MembersOk(SubSeq(text, 2, Len(text) - 1))
         THEN LET inner == SubSeq(text, 2, Len(text) - 1)
              IN  Ok([kind |-> "Object",
                      bibliography |-> JsonGet(inner, "bibliography"),
                      title |-> JsonGet(inner, "title")])
         ELSE Err("failed to parse frontmatter")

(***************************************************************************)
(* djot.rs: each step returns the store, the events and a result, which    *)
(* is "Ok", an error message, or "panic"                                   *)
(***************************************************************************)
Outcome(metadata, events, res) ==
    [metadata |-> metadata, events |-> events, result |-> res]

\* extract_frontmatter with the store written before the text is parsed.
extract_frontmatter_EagerStore(metadata, slug, events) ==
    IF ~(Len(events) >= 1 /\ IsStartOf(events[1], RawBlock("json")))
    THEN Outcome(metadata, events, "Ok")
    ELSE LET strings == collect_strings(From(events, 2))
             num_str_events == strings[2]
             parsed == parse_json(strings[1])
             stored == [metadata EXCEPT ![slug].frontmatter = Some(strings[1])]
         IN  IF 1 + num_str_events + 1 > Len(events)
             THEN Outcome(metadata, events, "panic")
             ELSE IF ~IsEndOf(events[1 + num_str_events + 1], RawBlock("json"))
             THEN Outcome(metadata, events, "Ok")
             ELSE IF ~parsed.ok
             THEN Outcome(stored, events, "failed to parse frontmatter")
             ELSE Outcome([stored EXCEPT ![slug].frontmatter = Some(parsed.val)],
                          From(events, 1 + num_str_events + 1 + 1), "Ok")

\* extract_frontmatter
extract_frontmatter(metadata, slug, events) ==
    IF ~(Len(events) >= 1 /\ IsStartOf(events[1], RawBlock("json")))
    THEN Outcome(metadata, events, "Ok")
    ELSE LET strings == collect_strings(From(events, 2))
             num_str_events == strings[2]
             parsed == parse_json(strings[1])
             frontmatter == parsed.val
             with_bibliography ==
                 IF /\ frontmatter.kind = "Object"
                    /\ IsSome(frontmatter.bibliography)
                    /\ Unwrap(frontmatter.bibliography).kind = "String"
                 THEN [metadata EXCEPT ![slug].bibliography_file =
                           Some(Unwrap(frontmatter.bibliography).text)]
                 ELSE metadata
         IN  IF 1 + num_str_events + 1 > Len(events)
             THEN Outcome(metadata, events, "panic")
             ELSE IF ~IsEndOf(events[1 + num_str_events + 1], RawBlock("json"))
             THEN Outcome(metadata, events, "Ok")
             ELSE IF ~parsed.ok
             THEN Outcome(metadata, events, "failed to parse frontmatter")
             ELSE Outcome([with_bibliography EXCEPT ![slug].frontmatter = Some(frontmatter)],
                          From(events, 1 + num_str_events + 1 + 1), "Ok")

\* find_title that takes the first level-1 heading and accepts further ones.
find_title_FirstHeading(metadata, slug, events) ==
    LET headers == {i \in 1..Len(events) : IsStartOf(events[i], Heading(1))}
        titled(title_offset, strings) ==
            IF ~(/\ title_offset + strings[2] + 1 <= Len(events)
                 /\ IsEndOf(events[title_offset + strings[2] + 1], Heading(1)))
            THEN Outcome(metadata, events, "Ok")
            ELSE Outcome([metadata EXCEPT ![slug].title = Some(strings[1])],
                         events, "Ok")
    IN  IF headers = {} THEN Outcome(metadata, events, "Ok")
        ELSE titled(SetMin(headers),
                    collect_strings(From(events, SetMin(headers) + 1)))

\* A variant of find_title that stores the title in every record of the
\* store
find_title_EveryRecord(metadata, slug, events) ==
    LET headers == {i \in 1..Len(events) : IsStartOf(events[i], Heading(1))}
    IN  IF headers = {} THEN Outcome(metadata, events, "Ok")
        ELSE IF Cardinality(headers) > 1
        THEN Outcome(metadata, events,
                     "Found multiple level 1 headers in the same document")
        ELSE LET title_offset == SetMin(headers)
                 strings == collect_strings(From(events, title_offset + 1))
                 num_str_events == strings[2]
             IN  IF ~(/\ title_offset + num_str_events + 1 <= Len(events)
                      /\ IsEndOf(events[title_offset + num_str_events + 1], Heading(1)))
                 THEN Outcome(metadata, events, "Ok")
                 ELSE Outcome([s \in DOMAIN metadata |->
                                   [metadata[s] EXCEPT !.title = Some(strings[1])]],
                              events, "Ok")

\* find_title
find_title(metadata, slug, events) ==
    LET headers == {i \in 1..Len(events) : IsStartOf(events[i], Heading(1))}
    IN  IF headers = {} THEN Outcome(metadata, events, "Ok")
        ELSE IF Cardinality(headers) > 1
        THEN Outcome(metadata, events,
                     "Found multiple level 1 headers in the same document")
        ELSE LET title_offset == SetMin(headers)
                 strings == collect_strings(From(events, title_offset + 1))
                 num_str_events == strings[2]
             IN  IF ~(/\ title_offset + num_str_events + 1 <= Len(events)
                      /\ IsEndOf(events[title_offset + num_str_events + 1], Heading(1)))
                 THEN Outcome(metadata, events, "Ok")
                 ELSE Outcome([metadata EXCEPT ![slug].title = Some(strings[1])],
                              events, "Ok")

(***************************************************************************)
(* biblatex.rs.  A library is the sequence of its entries' keys; reading   *)
(* it gives Ok(library) or an error.  The driver is the sequence of the    *)
(* citation requests submitted to it, each the keys of its items and       *)
(* whether they are hidden.                                                *)
(***************************************************************************)
RECURSIVE TrimStart(_)
TrimStart(text) ==
    IF Len(text) > 0 /\ Head(text) = " " THEN TrimStart(Tail(text)) ELSE text

RECURSIVE TrimEnd(_)
TrimEnd(text) ==
    IF Len(text) > 0 /\ Last(text) = " " THEN TrimEnd(Front(text)) ELSE text

\* str::trim
Trim(text) == TrimEnd(TrimStart(text))

\* raw_citations.split(";").map(str::trim)
RECURSIVE SplitKeys(_)
SplitKeys(text) ==
    LET semis == {i \in 1..Len(text) : text[i] = ";"}
    IN  IF semis = {} THEN <<Trim(text)>>
        ELSE <<Trim(SubSeq(text, 1, SetMin(semis) - 1))>>
             \o SplitKeys(From(text, SetMin(semis) + 1))

InLibrary(library, key) == \E i \in 1..Len(library) : library[i] = key

\* The keys of one marker that the library holds, in their written order
KnownKeys(library, text) ==
    SelectSeq(SplitKeys(text), LAMBDA key : InLibrary(library, key))

NumText(n) ==
    IF n \in 1..9 THEN <<<<"1", "2", "3", "4", "5", "6", "7", "8", "9">>[n]>>
    ELSE <<"9", "+">>

RECURSIVE JoinKeys(_)
JoinKeys(keys) ==
    IF Len(keys) = 0 THEN <<>>
    ELSE IF Len(keys) = 1 THEN keys[1]
    ELSE keys[1] \o <<";">> \o JoinKeys(Tail(keys))

\* render_citation_to_html of the citation rendered for request number idx
RenderedCitation(idx, keys) == <<"@">> \o NumText(idx) \o <<":">> \o JoinKeys(keys)

\* The ascending sequence of a set of numbers
RECURSIVE Ascending(_)
Ascending(S) ==
    IF S = {} THEN <<>> ELSE <<SetMin(S)>> \o Ascending(S \ {SetMin(S)})

\* Vec::splice over the 0-based half-open range start..end
Splice(events, start, end, replacement) ==
    SubSeq(events, 1, start) \o replacement \o From(events, end + 1)

\* The citation loop: spans (0-based, half-open), keys and requests of the
\* markers at the given 0-based offsets; malformed is set when a marker has
\* no end event after its strings.
RECURSIVE CitationLoop(_, _, _)
CitationLoop(events, library, offsets) ==
    IF Len(offsets) = 0
    THEN [malformed |-> FALSE, spans |-> <<>>, keys |-> <<>>, requests |-> <<>>]
    ELSE LET cite_start_offset == Head(offsets)
             strings == collect_strings(From(events, cite_start_offset + 2))
             num_str_events == strings[2]
             keys == KnownKeys(library, strings[1])
             rest == CitationLoop(events, library, Tail(offsets))
         IN  IF ~(/\ cite_start_offset + num_str_events + 2 <= Len(events)
                  /\ IsEndOf(events[cite_start_offset + num_str_events + 2],
                             RawInline("cite")))
             THEN [malformed |-> TRUE, spans |-> <<>>, keys |-> <<>>, requests |-> <<>>]
             ELSE [malformed |-> rest.malformed,
                   spans |-> <<<<cite_start_offset,
                                 cite_start_offset + num_str_events + 1 + 1>>>>
                             \o rest.spans,
                   keys |-> <<keys>> \o rest.keys,
                   requests |-> <<[keys |-> keys, hidden |-> FALSE]>> \o rest.requests]

\* A variant of the hidden requests that leaves the first entry of the
\* library out
HiddenRequests_SkipFirst(library) ==
    [i \in 1..(Len(library) - 1) |-> [keys |-> <<library[i + 1]>>, hidden |-> TRUE]]

\* The hidden requests, one per library entry
HiddenRequests(library) ==
    [i \in 1..Len(library) |-> [keys |-> <<library[i]>>, hidden |-> TRUE]]

\* The splice loop.  removed_offset is a usize: with overflow checks (a
\* debug build) num_events_removed - 3 panics below zero; without them (a
\* release build) it wraps, so the offset is kept as an integer that stands
\* for its value modulo 2^64, and a negative start or end of the updated
\* span is an index far above the length, on which splice panics.
RECURSIVE SpliceLoop(_, _, _, _, _, _)
SpliceLoop(events, spans, keys, citation_idx, removed_offset, overflow_checks) ==
    IF citation_idx > Len(spans) THEN [events |-> events, result |-> "Ok"]
    ELSE LET start == removed_offset + spans[citation_idx][1]
             end == removed_offset + spans[citation_idx][2]
             num_events_removed == end - start
             replacement ==
                 <<Start(RawInline("html")),
                   EvStr(RenderedCitation(citation_idx, keys[citation_idx])),
                   End(RawInline("html"))>>
         IN  IF start < 0 \/ end < 0 \/ start > end \/ end > Len(events)
             THEN [events |-> events, result |-> "panic"]
             ELSE IF overflow_checks /\ num_events_removed < 3
             THEN [events |-> Splice(events, start, end, replacement),
                   result |-> "panic"]
             ELSE SpliceLoop(Splice(events, start, end, replacement), spans, keys,
                             citation_idx + 1,
                             removed_offset + num_events_removed - 3,
                             overflow_checks)

\* The keys of the rendered bibliography: every key of a request, in the
\* order of its first request
RECURSIVE FirstUses(_, _)
FirstUses(keys, seen) ==
    IF Len(keys) = 0 THEN <<>>
    ELSE IF Head(keys) \in seen THEN FirstUses(Tail(keys), seen)
    ELSE <<Head(keys)>> \o FirstUses(Tail(keys), seen \cup {Head(keys)})

RECURSIVE RequestKeys(_)
RequestKeys(requests) ==
    IF Len(requests) = 0 THEN <<>>
    ELSE Head(requests).keys \o RequestKeys(Tail(requests))

RawHtml(text) ==
    <<Start(RawBlock("html")), EvStr(text), End(RawBlock("html"))>>

\* The events of the bibliography items
RECURSIVE BibliographyEvents(_, _)
BibliographyEvents(items, idx) ==
    IF idx > Len(items) THEN <<>>
    ELSE <<Start(Div("reference-key"))>>
         \o RawHtml(<<"#">> \o items[idx] \o <<"[">> \o NumText(idx) \o <<"]">>)
         \o <<End(Div("reference-key"))>>
         \o RawHtml(<<"<", "c", ">">>)
         \o RawHtml(<<"=">> \o items[idx])
         \o RawHtml(<<"<", "/", "c", ">">>)
         \o (IF idx # Len(items) THEN <<Blankline>> ELSE <<>>)
         \o BibliographyEvents(items, idx + 1)

ReferenceSection(items) ==
    <<Start(Section("reference")), Start(Heading(2)),
      EvStr(<<"R", "e", "f", "e", "r", "e", "n", "c", "e">>), End(Heading(2)),
      Start(Div("reference-grid"))>>
    \o BibliographyEvents(items, 1)
    \o <<End(Div("reference-grid")), End(Section("reference"))>>

\* handle_references; `requests` is what the driver has been given
handle_references(library, overflow_checks, metadata, slug, events) ==
    LET finish(loop, requests, spliced) ==
            IF loop.malformed
            THEN [events |-> events, result |-> "Ok", requests |-> <<>>]
            ELSE IF spliced.result # "Ok"
            THEN [events |-> spliced.events, result |-> spliced.result,
                  requests |-> requests]
            ELSE [events |-> spliced.events
                             \o ReferenceSection(FirstUses(RequestKeys(requests), {})),
                  result |-> "Ok",
                  requests |-> requests]
        cited(loop) ==
            finish(loop, loop.requests \o HiddenRequests(library.val),
                   SpliceLoop(events, loop.spans, loop.keys, 1, 0, overflow_checks))
        citation_offsets ==
            Ascending({i - 1 : i \in {j \in 1..Len(events) :
                                        IsStartOf(events[j], RawInline("cite"))}})
    IN  IF ~IsSome(metadata[slug].bibliography_file)
        THEN [events |-> events, result |-> "Ok", requests |-> <<>>]
        ELSE IF ~library.ok
        THEN [events |-> events, result |-> "reading biblatex library", requests |-> <<>>]
        ELSE cited(CitationLoop(events, library.val, citation_offsets))

\* jotdown::html::render_to_string
render_to_string(events) == <<"html", events>>

\* djot::render: the store, the result and the markup
render(library, overflow_checks, metadata, slug, events) ==
    LET rendered(title, refs) ==
            IF refs.result # "Ok"
            THEN [metadata |-> title.metadata, result |-> refs.result, html |-> None]
            ELSE [metadata |-> title.metadata, result |-> "Ok",
                  html |-> Some(render_to_string(refs.events))]
        titled(title) ==
            IF title.result # "Ok"
            THEN [metadata |-> title.metadata, result |-> title.result, html |-> None]
            ELSE rendered(title, handle_references(library, overflow_checks,
                                                   title.metadata, slug, title.events))
        extracted(front) ==
            IF front.result # "Ok"
            THEN [metadata |-> front.metadata, result |-> front.result, html |-> None]
            ELSE titled(find_title(front.metadata, slug, front.events))
    IN  extracted(extract_frontmatter(metadata, slug, events))

(***************************************************************************)
(* Generated paths: directories of depth <= MaxDepth, file names of        *)
(* dot-separated segments.  Names made of dots only and names that begin   *)
(* with two dots are left out: "." and ".." are not normal components.     *)
(***************************************************************************)
DirNames == {S_a, S_b}
Dirs == UNION {[1..n -> DirNames] : n \in 0..MaxDepth}

Segs == {S_empty, S_a, S_index, S_page, S_dj, S_html}

RECURSIVE JoinDots(_)
JoinDots(segs) ==
    IF Len(segs) = 1 THEN segs[1]
    ELSE segs[1] \o S_dot \o JoinDots(Tail(segs))

NamesOver(segs, dots) ==
    {JoinDots(s) : s \in {t \in UNION {[1..n -> segs] : n \in 1..(dots + 1)} :
                            /\ \E i \in 1..Len(t) : t[i] # S_empty
                            /\ ~(Len(t) >= 3 /\ t[1] = S_empty /\ t[2] = S_empty)}}

FileNames == NamesOver(Segs, MaxDots)
Paths == {Join(d, <<f>>) : d \in Dirs, f \in FileNames} \cup {<<>>}

\* The slugs the order is asked about: slugs of files, and the range bounds
\* of make_subpage_range.
OrdNames == NamesOver({S_empty, S_a, S_index, S_page}, 1)
OrdFileSlugs == {from_path(Join(d, <<f>>)).val : d \in Dirs, f \in OrdNames}
OrdSlugs ==
    OrdFileSlugs \cup {make_subpage_range(s)[1] : s \in OrdFileSlugs}
                 \cup {make_subpage_range(s)[2] : s \in OrdFileSlugs}

(***************************************************************************)
(* The build's variables while a pure function is under check              *)
(***************************************************************************)
buildVars == <<input, release, site, cur, step, content, ctx, processed,
               output, result>>

BuildIdle ==
    /\ input = {}
    /\ release = FALSE
    /\ site = None
    /\ cur = None
    /\ step = 0
    /\ content = None
    /\ ctx = None
    /\ processed = <<>>
    /\ output = <<>>
    /\ result = None

(***************************************************************************)
(* SpecPath: from_path, as_path and from_input applied to one path         *)
(***************************************************************************)
InitPath ==
    /\ pc = "from_path"
    /\ inp \in {[path |-> p] : p \in Paths}
    /\ out = [slug |-> None, back |-> None, file |-> None]
    /\ BuildIdle

CallFromPath ==
    /\ pc = "from_path"
    /\ LET r == from_path(inp.path)
       IN  IF r.ok
           THEN /\ out' = [out EXCEPT !.slug = Some(r.val)]
                /\ pc' = "as_path"
           ELSE /\ out' = out
                /\ pc' = "no_file_name"
    /\ UNCHANGED <<inp, buildVars>>

CallAsPath ==
    /\ pc = "as_path"
    /\ out' = [out EXCEPT !.back = Some(as_path(Unwrap(out.slug)))]
    /\ pc' = "from_input"
    /\ UNCHANGED <<inp, buildVars>>

CallFromInput ==
    /\ pc = "from_input"
    /\ out' = [out EXCEPT !.file = Some(from_input(inp.path))]
    /\ pc' = "path_done"
    /\ UNCHANGED <<inp, buildVars>>

NextPath == CallFromPath \/ CallAsPath \/ CallFromInput

SpecPath == InitPath /\ [][NextPath]_vars

(***************************************************************************)
(* SpecOrd: ContentSlug::cmp applied to a pair of slugs                    *)
(***************************************************************************)
InitOrd ==
    /\ pc = "cmp"
    /\ inp \in {[x |-> a, y |-> b] : a \in OrdSlugs, b \in OrdSlugs}
    /\ out = [xy |-> None, yx |-> None]
    /\ BuildIdle

CallCmp ==
    /\ pc = "cmp"
    /\ out' = [xy |-> Some(cmp(inp.x, inp.y)), yx |-> Some(cmp(inp.y, inp.x))]
    /\ pc' = "cmp_done"
    /\ UNCHANGED <<inp, buildVars>>

NextOrd == CallCmp

SpecOrd == InitOrd /\ [][NextOrd]_vars

(***************************************************************************)
(* SpecDjot: the steps of djot::render on the events of one document, for  *)
(* the page a.dj in a store that also holds index.dj                       *)
(***************************************************************************)
\* The events of a text split into the given parts, one Str event each
Strs(parts) == IF Len(parts) = 0 THEN <<>> ELSE [i \in 1..Len(parts) |-> EvStr(parts[i])]

FrontBlock(parts) ==
    <<Start(RawBlock("json"))>> \o Strs(parts) \o <<End(RawBlock("json"))>>

HeadingBlock(level, inlines) ==
    <<Start(Section("s")), Start(Heading(level))>> \o inlines
    \o <<End(Heading(level)), End(Section("s"))>>

\* One inline cite marker whose text comes in the given parts
Marker(parts) ==
    <<Start(RawInline("cite"))>> \o Strs(parts) \o <<End(RawInline("cite"))>>

CiteBlock(parts) == <<Start(Paragraph)>> \o Marker(parts) \o <<End(Paragraph)>>

\* A paragraph of two markers with text between them
CitesBlock(first, second) ==
    <<Start(Paragraph)>> \o Marker(first) \o <<EvStr(<<"x">>)>> \o Marker(second)
    \o <<End(Paragraph)>>

Blocks ==
    {FrontBlock(<<<<"{", "b", "}">>>>),
     FrontBlock(<<<<"{", "t", ",">>, <<"b", "}">>>>),
     FrontBlock(<<<<"{", "}">>>>),
     FrontBlock(<<<<"{", "n", "}">>>>),
     FrontBlock(<<<<"1">>>>),
     FrontBlock(<<<<"{", "b">>>>),
     FrontBlock(<<>>),
     RawHtml(<<"x">>),
     HeadingBlock(1, <<EvStr(<<"T">>)>>),
     HeadingBlock(1, <<EvStr(<<"T">>), EvStr(<<"U">>)>>),
     HeadingBlock(1, <<EvStr(<<"T">>), Start(Emphasis), EvStr(<<"i">>), End(Emphasis)>>),
     HeadingBlock(2, <<EvStr(<<"S">>)>>),
     <<Start(Paragraph), EvStr(<<"x">>), End(Paragraph)>>,
     CiteBlock(<<<<"p", ";", " ", "z">>>>),
     CiteBlock(<<<<"p">>, <<";", "q">>>>),
     CiteBlock(<<>>),
     CitesBlock(<<<<"q">>>>, <<<<"p">>>>),
     CitesBlock(<<<<"p", ";">>, <<"q">>>>, <<<<"z", ";", "p">>>>),
     CitesBlock(<<>>, <<<<"p">>>>)}

RECURSIVE Flatten(_)
Flatten(blocks) ==
    IF Len(blocks) = 0 THEN <<>> ELSE Head(blocks) \o Flatten(Tail(blocks))

Documents == {Flatten(b) : b \in UNION {[1..n -> Blocks] : n \in 0..MaxBlocks}}

Libraries == {Err("reading biblatex library"), Ok(<<<<"p">>>>), Ok(<<<<"q">>, <<"p">>>>)}

DjotSlug == from_path(<<N(S_a, S_dj)>>).val
DjotOther == from_path(<<N(S_index, S_dj)>>).val
DjotStore ==
    [slug \in {DjotSlug, DjotOther} |->
        MetadataNew(FALSE, slug, from_input(as_path(slug)))]

InitDjot ==
    /\ pc = "extract_frontmatter"
    /\ inp \in {[events |-> d] : d \in Documents}
    /\ out = [metadata |-> DjotStore, events |-> inp.events, error |-> None,
              failed_in |-> None, requests |-> <<>>, html |-> None,
              library |-> None, overflow_checks |-> FALSE]
    /\ BuildIdle

\* One step of render: its outcome is taken over, an error ends the call
DjotStep(name, outcome, next) ==
    IF outcome.result = "Ok"
    THEN /\ out' = [out EXCEPT !.metadata = outcome.metadata, !.events = outcome.events]
         /\ pc' = next
    ELSE /\ out' = [out EXCEPT !.metadata = outcome.metadata, !.events = outcome.events,
                               !.error = Some(outcome.result), !.failed_in = Some(name)]
         /\ pc' = "render_failed"

ExtractFrontmatter ==
    /\ pc = "extract_frontmatter"
    /\ DjotStep("extract_frontmatter",
                extract_frontmatter(out.metadata, DjotSlug, out.events), "find_title")
    /\ UNCHANGED <<inp, buildVars>>

FindTitle ==
    /\ pc = "find_title"
    /\ DjotStep("find_title", find_title(out.metadata, DjotSlug, out.events),
                "handle_references")
    /\ UNCHANGED <<inp, buildVars>>

HandleReferences ==
    /\ pc = "handle_references"
    /\ \E library \in Libraries, overflow_checks \in BOOLEAN :
           \E refs \in {handle_references(library, overflow_checks, out.metadata,
                                           DjotSlug, out.events)} :
               IF refs.result = "Ok"
               THEN /\ out' = [out EXCEPT !.events = refs.events,
                                          !.requests = refs.requests,
                                          !.library = Some(library),
                                          !.overflow_checks = overflow_checks]
                    /\ pc' = "render_to_string"
               ELSE /\ out' = [out EXCEPT !.events = refs.events,
                                          !.requests = refs.requests,
                                          !.library = Some(library),
                                          !.overflow_checks = overflow_checks,
                                          !.error = Some(refs.result),
                                          !.failed_in = Some("handle_references")]
                    /\ pc' = "render_failed"
    /\ UNCHANGED <<inp, buildVars>>

RenderToString ==
    /\ pc = "render_to_string"
    /\ out' = [out EXCEPT !.html = Some(render_to_string(out.events))]
    /\ pc' = "rendered"
    /\ UNCHANGED <<inp, buildVars>>

NextDjot == ExtractFrontmatter \/ FindTitle \/ HandleReferences \/ RenderToString

SpecDjot == InitDjot /\ [][NextDjot]_vars

(***************************************************************************)
(* Spec: build over a gathered input of at most MaxFiles files.  A file of *)
(* the input is its path relative to the input directory.  Reading and     *)
(* writing files succeed; what a content file holds is chosen when it is   *)
(* read.                                                                   *)
(***************************************************************************)
Content(dir, name) == Join(<<S_content>>, P(dir, name))
Template(dir, name) == Join(<<S_templates>>, P(dir, name))

InputPaths ==
    {Content(<<>>, N(S_a, S_dj)),
     Content(<<>>, N(S_index, S_dj)),
     Content(<<>>, N(S_index, S_html)),
     Content(<<S_a>>, N(S_b, S_dj)),
     Content(<<S_a>>, N(S_index, S_dj)),
     Content(<<S_a>>, N(S_c, S_css)),
     Content(<<S_a>>, N(S_page, S_dj)),
     Template(<<>>, N(S_page, S_html)),
     Template(<<S_a>>, N(S_page, S_html)),
     Template(<<>>, N(S_index, S_html)),
     Template(<<>>, N(S_b, S_dj)),
     <<S_static, N(S_c, S_css)>>,
     <<S_templates>>,
     <<S_content>>}

\* The ascending sequence of a set of paths: the iteration order of
\* BuildDirFiles.files
RECURSIVE SortPaths(_)
SortPaths(S) ==
    IF S = {} THEN <<>>
    ELSE LET least == CHOOSE m \in S : \A n \in S : PathCmp(m, n) # "Greater"
         IN  <<least>> \o SortPaths(S \ {least})

EmptySite == [metadata |-> <<>>, files |-> <<>>, templates |-> {}]

\* The body of the loop of Site::parse: one file classified by its first
\* path component
ParseFile(rel, path, acc) ==
    LET insert_content(slug, content_file) ==
            IF FileStem(path) = Some(S_page)
            THEN Err("Cannot have a content page named 'page'")
            ELSE IF ~slug.ok THEN Err("Content has no file name")
            ELSE IF slug.val \in DOMAIN acc.metadata THEN Err("panic")
            ELSE Ok([acc EXCEPT
                        !.metadata = (slug.val :> MetadataNew(rel, slug.val, content_file)) @@ @,
                        !.files = (slug.val :> content_file) @@ @])
        insert_template(sub_path) ==
            IF Extension(path) # Some(S_html)
            THEN Err("Template files must be HTML")
            ELSE Ok([acc EXCEPT !.templates = @ \cup {sub_path}])
    IN  IF path[1] = S_content THEN insert_content(from_path(Tail(path)), from_input(path))
        ELSE IF path[1] = S_templates THEN insert_template(Tail(path))
        ELSE Ok(acc)

\* The loop of Site::parse over the files in path order; the first error
\* ends it
RECURSIVE ParseLoop(_, _, _)
ParseLoop(rel, paths, acc) ==
    LET then(parsed) ==
            IF parsed.ok THEN ParseLoop(rel, Tail(paths), parsed.val) ELSE parsed
    IN  IF Len(paths) = 0 THEN Ok(acc) ELSE then(ParseFile(rel, Head(paths), acc))

\* Site::parse without the check of the content file's stem.
site_parse_NoPageCheck(rel, build_files) ==
    ParseLoop(rel,
              SortPaths({p \in build_files : ~(p[1] = S_content /\ FileStem(p) = Some(S_page))}),
              EmptySite)

\* Site::parse
site_parse(rel, build_files) == ParseLoop(rel, SortPaths(build_files), EmptySite)

\* What reading a file gives before it is parsed or templated
Source(path) == <<"source", path>>

\* BuildCmd::output_folder joined with output_filename, under the output root
OutputPath(slug, file) == P(slug.parent, output_filename(file))

\* The documents and libraries a content file of the build may hold
BuildDocuments ==
    {FrontBlock(<<<<"{", "t", "}">>>>) \o HeadingBlock(1, <<EvStr(<<"T">>)>>),
     HeadingBlock(1, <<EvStr(<<"T">>)>>) \o HeadingBlock(1, <<EvStr(<<"T">>)>>),
     FrontBlock(<<<<"{", "b", "}">>>>) \o CiteBlock(<<<<"p", ";", " ", "z">>>>)}

\* The ApplyTemplate arm of process with a missing template taken for a
\* failure of the template engine.
apply_template_MissingFails(templates, metadata, slug, file, text, rel, rendered) ==
    LET apply(template, context) ==
            IF ~IsSome(template) \/ ~rendered
            THEN [content |-> text, ctx |-> None, result |-> "failed to render template"]
            ELSE [content |-> <<"tera", Unwrap(template), context>>,
                  ctx |-> Some(context), result |-> "Ok"]
        found(template) ==
            apply(template, [content |-> text, metadata |-> metadata[slug],
                             subpages |-> subpages(metadata, slug), release |-> rel,
                             template |-> template])
    IN  found(find_template(templates, slug, MediaExtension(file.current_media_type)))

\* The ApplyTemplate arm of process; `rendered` is whether tera renders
\* the template without an error
apply_template(templates, metadata, slug, file, text, rel, rendered) ==
    LET apply(template, context) ==
            IF ~IsSome(template)
            THEN [content |-> text, ctx |-> None, result |-> "Ok"]
            ELSE IF ~rendered
            THEN [content |-> text, ctx |-> Some(context),
                  result |-> "failed to render template"]
            ELSE [content |-> <<"tera", Unwrap(template), context>>,
                  ctx |-> Some(context), result |-> "Ok"]
        found(template) ==
            apply(template, [content |-> text, metadata |-> metadata[slug],
                             subpages |-> subpages(metadata, slug), release |-> rel,
                             template |-> template])
    IN  found(find_template(templates, slug, MediaExtension(file.current_media_type)))

Init ==
    /\ pc = "parse"
    /\ inp = None
    /\ out = None
    /\ input \in {f \in SUBSET InputPaths : Cardinality(f) <= MaxFiles}
    /\ release \in BOOLEAN
    /\ site = None
    /\ cur = None
    /\ step = 0
    /\ content = None
    /\ ctx = None
    /\ processed = <<>>
    /\ output = <<>>
    /\ result = None

ProcessedSet == {processed[i] : i \in 1..Len(processed)}
Remaining ==
    {s \in DOMAIN Unwrap(site).files :
        /\ \A i \in 1..Len(processed) : processed[i] # s
        /\ cur # Some(s)}

\* build up to the loop over the content files
Parse ==
    /\ pc = "parse"
    /\ \E parsed \in {site_parse(release, input)} :
           IF parsed.ok
           THEN /\ site' = Some(parsed.val)
                /\ pc' = "process"
                /\ result' = result
           ELSE /\ site' = site
                /\ pc' = "failed"
                /\ result' = Some(Err(parsed.err))
    /\ UNCHANGED <<inp, out, input, release, cur, step, content, ctx, processed, output>>

\* The next process call: the least content slug not yet processed.  An
\* empty plan copies the file and returns.
BeginProcess ==
    /\ pc = "process"
    /\ Remaining # {}
    /\ \E slug \in {SortSlugs(Remaining)[1]} :
       \E file \in {Unwrap(site).files[slug]} :
           /\ cur' = Some(slug)
           /\ step' = 1
           /\ IF Len(file.plan) = 0
              THEN /\ output' = (OutputPath(slug, file) :> Source(file.input)) @@ output
                   /\ processed' = Append(processed, slug)
                   /\ content' = None
                   /\ pc' = "process"
              ELSE /\ content' = Source(file.input)
                   /\ pc' = "step"
                   /\ UNCHANGED <<output, processed>>
    /\ UNCHANGED <<inp, out, input, release, site, ctx, result>>

CurSlug == Unwrap(cur)
CurFile == Unwrap(site).files[CurSlug]
AtStep(transform) ==
    /\ pc = "step"
    /\ step <= Len(CurFile.plan)
    /\ CurFile.plan[step] = transform

\* A variant of the RenderDjot arm in a loop that records the error of a
\* file and goes on with the next one
RenderDjotStep_KeepGoing ==
    /\ AtStep("RenderDjot")
    /\ \E document \in BuildDocuments, library \in Libraries, overflow_checks \in BOOLEAN :
           \E r \in {render(library, overflow_checks, Unwrap(site).metadata, CurSlug,
                           document)} :
               /\ site' = Some([Unwrap(site) EXCEPT !.metadata = r.metadata])
               /\ inp' = Some([slug |-> CurSlug, document |-> document,
                               library |-> library])
               /\ IF r.result = "Ok"
                  THEN /\ content' = Unwrap(r.html)
                       /\ step' = step + 1
                       /\ UNCHANGED <<pc, result>>
                  ELSE /\ pc' = "process"
                       /\ result' = Some(Err(r.result))
                       /\ UNCHANGED <<content, step>>
    /\ UNCHANGED <<out, input, release, cur, ctx, processed, output>>

\* The RenderDjot arm of process; inp keeps what the file held when it was
\* read
RenderDjotStep ==
    /\ AtStep("RenderDjot")
    /\ \E document \in BuildDocuments, library \in Libraries, overflow_checks \in BOOLEAN :
           \E r \in {render(library, overflow_checks, Unwrap(site).metadata, CurSlug,
                           document)} :
               /\ site' = Some([Unwrap(site) EXCEPT !.metadata = r.metadata])
               /\ inp' = Some([slug |-> CurSlug, document |-> document,
                               library |-> library])
               /\ IF r.result = "Ok"
                  THEN /\ content' = Unwrap(r.html)
                       /\ step' = step + 1
                       /\ UNCHANGED <<pc, result>>
                  ELSE /\ pc' = "failed"
                       /\ result' = Some(Err(r.result))
                       /\ UNCHANGED <<content, step>>
    /\ UNCHANGED <<out, input, release, cur, ctx, processed, output>>

ApplyTemplateStep ==
    /\ AtStep("ApplyTemplate")
    /\ \E rendered \in BOOLEAN :
           \E r \in {apply_template(Unwrap(site).templates, Unwrap(site).metadata,
                                   CurSlug, CurFile, content, release, rendered)} :
               /\ ctx' = r.ctx
               /\ content' = r.content
               /\ IF r.result = "Ok"
                  THEN /\ step' = step + 1
                       /\ UNCHANGED <<pc, result>>
                  ELSE /\ pc' = "failed"
                       /\ result' = Some(Err(r.result))
                       /\ step' = step
    /\ UNCHANGED <<inp, out, input, release, site, cur, processed, output>>

\* The end of process: the content is written to the output path
WriteOutput ==
    /\ pc = "step"
    /\ step > Len(CurFile.plan)
    /\ output' = (OutputPath(CurSlug, CurFile) :> content) @@ output
    /\ processed' = Append(processed, CurSlug)
    /\ pc' = "process"
    /\ UNCHANGED <<inp, out, input, release, site, cur, step, content, ctx, result>>

\* Site::format_output and the end of build; `formatted` is whether
\* prettier ran and returned success
FormatOutput ==
    /\ pc = "process"
    /\ Remaining = {}
    /\ \E formatted \in BOOLEAN :
           IF formatted
           THEN /\ output' = [path \in DOMAIN output |-> <<"prettier", output[path]>>]
                /\ result' = Some(Ok("done"))
                /\ pc' = "done"
           ELSE /\ output' = output
                /\ result' = Some(Err("Execution of 'prettier' failed"))
                /\ pc' = "failed"
    /\ UNCHANGED <<inp, out, input, release, site, cur, step, content, ctx, processed>>

Next ==
    \/ Parse
    \/ BeginProcess
    \/ RenderDjotStep
    \/ ApplyTemplateStep
    \/ WriteOutput
    \/ FormatOutput

Spec == Init /\ [][Next]_vars

(***************************************************************************)
(* Claims about paths and slugs                                            *)
(***************************************************************************)
HasFileName(p) == IsSome(FileName(p))

\* C3: for every relative path p that has a file name, from_path(p)
\* succeeds and as_path of the resulting slug equals p exactly.
C3_RoundTrip ==
    HasFileName(inp.path) =>
        /\ pc # "no_file_name"
        /\ pc \in {"from_input", "path_done"} => out.back = Some(inp.path)

\* The paths on which as_path does undo from_path: the stem holds no dot and
\* the extension is not the empty one of a name that ends in a dot.
PlainName(p) ==
    /\ HasFileName(p)
    /\ DotPositions(Unwrap(FileStem(p))) \subseteq {1}
    /\ Extension(p) # Some(S_empty)

RoundTripOfPlainNames ==
    (pc \in {"from_input", "path_done"}) =>
        (PlainName(inp.path) <=> out.back = Some(inp.path))

\* C2: ContentSlug::cmp is a strict total order (Equal only for equal slugs,
\* exactly one of a<b, b<a for distinct slugs, transitive), and within one
\* parent directory every Other stem is less than Index, whatever the name
\* and the extensions.
C2_StrictTotalOrder ==
    pc = "cmp_done" =>
        LET x == inp.x
            y == inp.y
            xy == Unwrap(out.xy)
            yx == Unwrap(out.yx)
        IN  /\ (xy = "Equal") <=> (x = y)
            /\ (yx = "Equal") <=> (x = y)
            /\ x # y => ((xy = "Less") <=> (yx # "Less"))
            /\ (xy = "Less") <=> (yx = "Greater")
            /\ \A z \in OrdSlugs : (xy = "Less" /\ Lt(y, z)) => Lt(x, z)
            /\ (x.parent = y.parent /\ ~IsIndex(x.stem) /\ IsIndex(y.stem))
                   => xy = "Less"

\* An Other stem whose bytes and extension are greater than the Index slug's
\* is compared with the Index slug of its directory.
C2_Witness ==
    /\ pc = "cmp_done"
    /\ inp.x.parent = inp.y.parent
    /\ inp.x.stem = Other(S_page)
    /\ inp.x.extension = Some(S_page)
    /\ inp.y.stem = Index
    /\ inp.y.extension = None
    /\ out.xy = Some("Less")

\* C9: from_input gives every original extension exactly one plan: dj gives
\* [RenderDjot, ApplyTemplate] and the effective media type Html, html gives
\* [ApplyTemplate], every other extension and no extension give the empty
\* plan with the media type unchanged; RenderDjot precedes ApplyTemplate and
\* no step occurs twice.
C9_PlanPerExtension ==
    pc = "path_done" =>
        LET file == Unwrap(out.file)
            ext == Extension(inp.path)
            plan == file.plan
        IN  /\ ext = Some(S_dj) =>
                   /\ plan = <<"RenderDjot", "ApplyTemplate">>
                   /\ file.original_media_type = Djot
                   /\ file.current_media_type = Html
            /\ ext = Some(S_html) =>
                   /\ plan = <<"ApplyTemplate">>
                   /\ file.current_media_type = Html
            /\ ext \notin {Some(S_dj), Some(S_html)} =>
                   /\ plan = <<>>
                   /\ file.original_media_type = OtherType(ext)
                   /\ file.current_media_type = file.original_media_type
            /\ \A i, j \in 1..Len(plan) : plan[i] = plan[j] => i = j
            /\ \A i, j \in 1..Len(plan) :
                   (plan[i] = "RenderDjot" /\ plan[j] = "ApplyTemplate") => i < j

\* A file with extension dj, in a name of several dots, has got its plan.
C9_Witness ==
    /\ pc = "path_done"
    /\ Extension(inp.path) = Some(S_dj)
    /\ Cardinality(DotPositions(Last(inp.path))) = 2
    /\ Unwrap(out.file).plan = <<"RenderDjot", "ApplyTemplate">>

(***************************************************************************)
(* SpecTemplate: find_template for the slug of one content path, over a    *)
(* template index of at most MaxTemplates files                            *)
(***************************************************************************)
LookupDirs == {<<>>, <<S_a>>, <<S_a, S_b>>, <<S_b>>}

LookupContent ==
    {P(d, N(S_c, S_dj)) : d \in LookupDirs}
    \cup {P(<<S_a, S_b>>, N(S_c, S_html)), P(<<S_a, S_b>>, N(S_index, S_dj)),
          P(<<>>, N(N(S_a, S_b), S_dj)), P(<<S_a>>, N(S_dot \o S_c, S_dj)),
          P(<<>>, S_c \o S_dot), P(<<S_a>>, S_c)}

LookupTemplates ==
    {P(d, N(S_page, S_html)) : d \in LookupDirs}
    \cup {P(d, N(S_c, S_html)) : d \in LookupDirs}
    \cup {P(<<>>, N(S_a, S_html)), P(<<>>, N(N(S_a, S_b), S_html)),
          P(<<S_a, S_b>>, N(S_index, S_html)), P(<<S_a>>, N(S_dot \o S_c, S_html))}

InitTemplate ==
    /\ pc = "find_template"
    /\ inp \in {[path |-> p, media_type |-> m, files |-> f] :
                   p \in LookupContent, m \in {Html, Djot},
                   f \in {t \in SUBSET LookupTemplates : Cardinality(t) <= MaxTemplates}}
    /\ out = [template |-> None]
    /\ BuildIdle

CallFindTemplate ==
    /\ pc = "find_template"
    /\ out' = [template |-> find_template(inp.files, from_path(inp.path).val,
                                          MediaExtension(inp.media_type))]
    /\ pc' = "find_done"
    /\ UNCHANGED <<inp, buildVars>>

NextTemplate == CallFindTemplate

SpecTemplate == InitTemplate /\ [][NextTemplate]_vars

\* The lookup as the specification words it, for the content path a slug
\* was made of: the path with the effective extension if it is a template,
\* otherwise page.<ext> of the nearest directory from the parent up to the
\* root, otherwise none.
NearestPage(files, dir, extension) ==
    LET chain == {SubSeq(dir, 1, k) : k \in 0..Len(dir)}
        hits == {d \in chain : P(d, N(S_page, extension)) \in files}
    IN  IF hits = {} THEN None
        ELSE LET d == CHOOSE h \in hits : \A g \in hits : Len(g) <= Len(h)
             IN  Some(P(d, N(S_page, extension)))

ResolvedTemplate(files, path, extension) ==
    IF SetExtension(path, extension) \in files
    THEN Some(SetExtension(path, extension))
    ELSE NearestPage(files, Front(path), extension)

\* C6: find_template returns the template at the slug's own path with the
\* effective extension if present, otherwise page.<ext> of the nearest
\* directory from slug.parent up to the templates root, and none exactly
\* when neither exists.
C6_FindTemplate ==
    pc = "find_done" =>
        out.template = ResolvedTemplate(inp.files, inp.path,
                                        MediaExtension(inp.media_type))

\* The same on the content paths whose stem holds no dot.
FindTemplateOfPlainNames ==
    (pc = "find_done" /\ PlainName(inp.path)) =>
        out.template = ResolvedTemplate(inp.files, inp.path,
                                        MediaExtension(inp.media_type))

\* The example of the specification: a/b/c with templates a/page.html and
\* page.html resolves to a/page.html.
FindTemplateExample ==
    (/\ pc = "find_done"
     /\ inp.path = P(<<S_a, S_b>>, N(S_c, S_dj))
     /\ inp.media_type = Html
     /\ inp.files = {P(<<S_a>>, N(S_page, S_html)), P(<<>>, N(S_page, S_html))})
        => out.template = Some(P(<<S_a>>, N(S_page, S_html)))

(***************************************************************************)
(* Claims about djot::render                                               *)
(***************************************************************************)
\* The first block of a document that starts a json raw block: the index of
\* its end event and the text of the Str events before it.
FirstIsJson(events) == Len(events) >= 1 /\ events[1] = Start(RawBlock("json"))
JsonBlockEnd(events) ==
    SetMin({i \in 1..Len(events) : events[i] = End(RawBlock("json"))})

RECURSIVE TextOf(_)
TextOf(events) ==
    IF Len(events) = 0 THEN <<>> ELSE Head(events)[2] \o TextOf(Tail(events))

JsonBlockText(events) == TextOf(SubSeq(events, 2, JsonBlockEnd(events) - 1))

ExtractFrontmatterDone ==
    \/ pc = "find_title"
    \/ pc = "render_failed" /\ out.failed_in = Some("extract_frontmatter")

\* C10: extract_frontmatter acts on the first event only.  If it starts a
\* json raw block whose text parses, the parsed value is the page's
\* frontmatter, a string-valued bibliography field is copied to
\* bibliography_file and exactly the block's events leave the front of the
\* list; if the first event is anything else, the store and the events are
\* unchanged and there is no error; if the text does not parse, an error is
\* returned and the store is unchanged.
C10_ExtractFrontmatter ==
    ExtractFrontmatterDone =>
        LET before == inp.events
            parsed == parse_json(JsonBlockText(before))
            own == out.metadata[DjotSlug]
        IN  /\ ~FirstIsJson(before) =>
                   /\ out.error = None
                   /\ out.metadata = DjotStore
                   /\ out.events = before
            /\ (FirstIsJson(before) /\ ~parsed.ok) =>
                   /\ out.error = Some("failed to parse frontmatter")
                   /\ out.metadata = DjotStore
            /\ (FirstIsJson(before) /\ parsed.ok) =>
                   /\ out.error = None
                   /\ own.frontmatter = Some(parsed.val)
                   /\ own.bibliography_file =
                          IF /\ parsed.val.kind = "Object"
                             /\ parsed.val.bibliography \in
                                    {Some([kind |-> "String", text |-> t]) : t \in {<<"r">>}}
                          THEN Some(<<"r">>)
                          ELSE None
                   /\ out.events = From(before, JsonBlockEnd(before) + 1)
                   /\ out.metadata =
                          [DjotStore EXCEPT ![DjotSlug].frontmatter = own.frontmatter,
                                            ![DjotSlug].bibliography_file =
                                                own.bibliography_file]

\* A block of two Str events with a bibliography has been taken off a
\* document that goes on after it.
C10_Witness ==
    /\ pc = "find_title"
    /\ FirstIsJson(inp.events)
    /\ JsonBlockEnd(inp.events) = 4
    /\ Len(out.events) > 0
    /\ out.metadata[DjotSlug].bibliography_file = Some(<<"r">>)

(***************************************************************************)
(* Claims about the build                                                  *)
(***************************************************************************)
Store == Unwrap(site).metadata
SlugsOf(records) == [i \in 1..Len(records) |-> records[i].slug]
SeqRange(seq) == {seq[i] : i \in 1..Len(seq)}

\* C1: content files are processed in ascending slug order, and whenever
\* the ApplyTemplate step of a page S runs, every slug of subpages(S) has
\* completed its own process run, so the record the template context sees
\* is final; for index and for non-index pages.
C1_SubpagesProcessedFirst ==
    /\ \A i, j \in 1..Len(processed) : i < j => Lt(processed[i], processed[j])
    /\ (pc = "step") => \A s \in ProcessedSet : Lt(s, CurSlug)
    /\ AtStep("ApplyTemplate") =>
           SeqRange(SlugsOf(subpages(Store, CurSlug))) \subseteq ProcessedSet
    /\ IsSome(ctx) =>
           \A i \in 1..Len(Unwrap(ctx).subpages) :
               LET seen == Unwrap(ctx).subpages[i]
               IN  /\ seen.slug \in ProcessedSet
                   /\ Store[seen.slug] = seen

\* The template of the non-index page a.dj has been given the record of
\* a/b.dj with its title.
C1_Witness ==
    /\ IsSome(ctx)
    /\ ~IsIndex(Unwrap(ctx).metadata.slug.stem)
    /\ Len(Unwrap(ctx).subpages) = 1
    /\ Unwrap(ctx).subpages[1].title = Some(<<"T">>)
    /\ Unwrap(ctx).subpages[1].slug.parent = <<S_a>>

\* C4: for an Index slug S, subpages(S) is exactly the records of the other
\* stored slugs whose parent is S.parent, in ascending slug order.
C4_IndexSubpages ==
    (IsSome(ctx) /\ IsIndex(Unwrap(ctx).metadata.slug.stem)) =>
        LET S == Unwrap(ctx).metadata.slug
        IN  SlugsOf(Unwrap(ctx).subpages) =
                SortSlugs({T \in DOMAIN Store : T # S /\ T.parent = S.parent})

\* What the range of an Index slug does hold: the stored slugs of its
\* directory that are less than it.
IndexSubpagesAreLesserSiblings ==
    (IsSome(ctx) /\ IsIndex(Unwrap(ctx).metadata.slug.stem)) =>
        LET S == Unwrap(ctx).metadata.slug
        IN  SlugsOf(Unwrap(ctx).subpages) =
                SortSlugs({T \in DOMAIN Store : T.parent = S.parent /\ Lt(T, S)})

\* C5: for a non-index slug S with stem Other(name), subpages(S) is all
\* content whose parent directory is S.parent/name, whatever its stem and
\* extension, and nothing of another directory.
C5_NamedSubpages ==
    (IsSome(ctx) /\ ~IsIndex(Unwrap(ctx).metadata.slug.stem)) =>
        LET S == Unwrap(ctx).metadata.slug
        IN  SeqRange(SlugsOf(Unwrap(ctx).subpages)) =
                {T \in DOMAIN Store : T.parent = Append(S.parent, S.stem[2])}

\* What the range of a non-index slug does hold: the stored slugs of the
\* directory S.parent/name whose stem is not Index.
NamedSubpagesLeaveOutIndex ==
    (IsSome(ctx) /\ ~IsIndex(Unwrap(ctx).metadata.slug.stem)) =>
        LET S == Unwrap(ctx).metadata.slug
        IN  SeqRange(SlugsOf(Unwrap(ctx).subpages)) =
                {T \in DOMAIN Store :
                    T.parent = Append(S.parent, S.stem[2]) /\ ~IsIndex(T.stem)}

NoTemplate(slug) ==
    ~IsSome(find_template(Unwrap(site).templates, slug,
                          MediaExtension(Unwrap(site).files[slug].current_media_type)))

\* C7: when find_template returns none, ApplyTemplate leaves the content as
\* it is and raises no error: process writes the rendered markup of a .dj
\* file, or the source text of an .html file, to the output path and
\* returns success.
C7_NoTemplatePassThrough ==
    /\ (pc = "failed" /\ result = Some(Err("failed to render template")))
           => ~NoTemplate(CurSlug)
    /\ (pc = "process" /\ IsSome(cur) /\ Len(CurFile.plan) > 0 /\ NoTemplate(CurSlug)) =>
           /\ CurSlug \in ProcessedSet
           /\ OutputPath(CurSlug, CurFile) \in DOMAIN output
           /\ output[OutputPath(CurSlug, CurFile)] = content
           /\ result = None
           /\ IF is_article(CurFile) THEN content[1] = "html"
              ELSE content = Source(CurFile.input)

\* index.dj has been written untemplated while a template of another
\* directory exists.
C7_Witness ==
    /\ pc = "process"
    /\ IsSome(cur)
    /\ CurSlug = [parent |-> <<>>, stem |-> Index, extension |-> Some(S_dj)]
    /\ Unwrap(site).templates = {P(<<S_a>>, N(S_page, S_html))}
    /\ output[OutputPath(CurSlug, CurFile)][1] = "html"

PageContent == \E p \in input : p[1] = S_content /\ FileStem(p) = Some(S_page)
BadTemplate ==
    \E p \in input : Len(p) >= 2 /\ p[1] = S_templates /\ Extension(p) # Some(S_html)
BadTemplatesEntry == \E p \in input : p[1] = S_templates /\ Extension(p) # Some(S_html)

ParseFailed == pc = "failed" /\ site = None
NothingProcessed == processed = <<>> /\ cur = None /\ DOMAIN output = {}
ConfigurationErrors ==
    {Some(Err("Cannot have a content page named 'page'")),
     Some(Err("Template files must be HTML"))}

\* C8 as stated: a content file of stem page, or a file under templates/
\* whose extension is missing or not html, makes parse fail before any
\* process step and any output; an input with neither raises no
\* configuration error.
C8_AsStated ==
    pc # "parse" =>
        /\ (PageContent \/ BadTemplate) => (ParseFailed /\ NothingProcessed)
        /\ ~(PageContent \/ BadTemplate) => ~(ParseFailed /\ result \in ConfigurationErrors)

\* C8, amended: the template error is raised for every file whose first
\* path component is templates, which a file named templates in the input
\* root is too; and parse fails for nothing else but a file named content
\* in the input root, whose slug has no file name.
C8_ParseRejects ==
    pc # "parse" =>
        /\ (PageContent \/ BadTemplatesEntry) =>
               /\ ParseFailed
               /\ NothingProcessed
               /\ (<<S_content>> \notin input) => result \in ConfigurationErrors
        /\ ~(PageContent \/ BadTemplatesEntry) =>
               /\ ParseFailed <=> (<<S_content>> \in input)
               /\ ParseFailed => result = Some(Err("Content has no file name"))

\* A page.dj beside a well-named content file has stopped the build in
\* parse.
C8_Witness ==
    /\ ParseFailed
    /\ NothingProcessed
    /\ input = {Content(<<S_a>>, N(S_page, S_dj)), Content(<<>>, N(S_a, S_dj)),
                Template(<<>>, N(S_page, S_html))}

(***************************************************************************)
(* Claims about find_title                                                 *)
(***************************************************************************)
Level1Starts(events) == {i \in 1..Len(events) : IsStartOf(events[i], Heading(1))}
Level1End(events, start) ==
    SetMin({j \in (start + 1)..Len(events) : IsEndOf(events[j], Heading(1))})

\* The text of the Str events of a slice, whatever lies between them
RECURSIVE FlatText(_)
FlatText(events) ==
    IF Len(events) = 0 THEN <<>>
    ELSE (IF Head(events)[1] = "Str" THEN Head(events)[2] ELSE <<>>)
         \o FlatText(Tail(events))

\* The inline events of the one level-1 heading of a document
HeadingInlines(events) ==
    SubSeq(events, SetMin(Level1Starts(events)) + 1,
           Level1End(events, SetMin(Level1Starts(events))) - 1)

OneHeading(events) == Cardinality(Level1Starts(events)) = 1
PlainInlines(inlines) == \A i \in 1..Len(inlines) : inlines[i][1] = "Str"

\* C11: on a document with exactly one level-1 heading, find_title stores
\* the flattened text of the heading as the title, whatever inline markup
\* the heading holds, and leaves the event list as it is.
C11_FindTitle ==
    [][(pc = "find_title" /\ OneHeading(out.events)) =>
           /\ pc' = "handle_references"
           /\ out'.events = out.events
           /\ out'.metadata[DjotSlug].title =
                  Some(FlatText(HeadingInlines(out.events)))]_vars

\* What find_title does hold: the title is stored when the heading holds
\* Str events only, and no title is stored when it holds anything else.
FindTitleOfPlainHeadings ==
    [][(pc = "find_title" /\ OneHeading(out.events)) =>
           /\ pc' = "handle_references"
           /\ out'.events = out.events
           /\ out'.metadata[DjotSlug].title =
                  IF PlainInlines(HeadingInlines(out.events))
                  THEN Some(FlatText(HeadingInlines(out.events)))
                  ELSE None]_vars

Rendered == Unwrap(inp)
MultipleHeaders == "Found multiple level 1 headers in the same document"

\* C12: on a document with two or more level-1 headings find_title returns
\* an error and stores no title, djot::render fails for the file, and
\* process writes no output for it.
C12_TwoHeadings ==
    (IsSome(inp) /\ Cardinality(Level1Starts(Rendered.document)) >= 2) =>
        /\ pc = "failed"
        /\ result \in {Some(Err(MultipleHeaders)),
                       Some(Err("failed to parse frontmatter"))}
        /\ CurSlug = Rendered.slug
        /\ Store[Rendered.slug].title = None
        /\ Rendered.slug \notin ProcessedSet
        /\ OutputPath(Rendered.slug, Unwrap(site).files[Rendered.slug])
               \notin DOMAIN output

\* The second content file of a build has failed on its two headings after
\* the first was written.
C12_Witness ==
    /\ pc = "failed"
    /\ result = Some(Err(MultipleHeaders))
    /\ IsSome(inp)
    /\ Cardinality(Level1Starts(Rendered.document)) = 2
    /\ Len(processed) = 1
    /\ DOMAIN output # {}

(***************************************************************************)
(* Claims about handle_references                                          *)
(***************************************************************************)
\* The 1-based positions of the cite markers of a document, ascending, and
\* the end event of the marker that starts at a position
MarkerStarts(events) ==
    Ascending({i \in 1..Len(events) : IsStartOf(events[i], RawInline("cite"))})
MarkerEnd(events, start) ==
    SetMin({j \in (start + 1)..Len(events) : IsEndOf(events[j], RawInline("cite"))})
MarkerText(events, start) ==
    FlatText(SubSeq(events, start + 1, MarkerEnd(events, start) - 1))

\* handle_references is about to run on a page with a bibliography, and
\* the library it is given is readable
WithLibrary ==
    /\ pc = "handle_references"
    /\ IsSome(out.metadata[DjotSlug].bibliography_file)
    /\ IsSome(out'.library)
    /\ Unwrap(out'.library).ok
LibraryKeys == Unwrap(out'.library).val

\* The request each marker is to give: its keys that the library holds
MarkerRequests(events, library) ==
    [n \in 1..Len(MarkerStarts(events)) |->
        [keys |-> KnownKeys(library, MarkerText(events, MarkerStarts(events)[n])),
         hidden |-> FALSE]]

NonHidden(requests) == SelectSeq(requests, LAMBDA r : ~r.hidden)
Hidden(requests) == SelectSeq(requests, LAMBDA r : r.hidden)

\* A document with every marker's span replaced by the three events of
\* the fragment of the request of the same number, all else kept
RECURSIVE Replaced(_, _, _)
Replaced(events, requests, n) ==
    IF Len(events) = 0 THEN <<>>
    ELSE IF IsStartOf(Head(events), RawInline("cite"))
    THEN <<Start(RawInline("html")),
           EvStr(RenderedCitation(n, requests[n].keys)),
           End(RawInline("html"))>>
         \o Replaced(From(events, MarkerEnd(events, 1) + 1), requests, n + 1)
    ELSE <<Head(events)>> \o Replaced(Tail(events), requests, n)

\* C13: for a document with a bibliography, one non-hidden request is
\* submitted per cite marker, in document order, holding the marker's keys
\* that are in the library in their written order, and the Nth marker is
\* replaced by the fragment of the Nth non-hidden request.
C13_RequestPerMarker ==
    [][WithLibrary =>
           /\ NonHidden(out'.requests) = MarkerRequests(out.events, LibraryKeys)
           /\ pc' = "render_to_string"
           /\ LET StartsWith(events, replaced) ==
                      /\ Len(events) >= Len(replaced)
                      /\ SubSeq(events, 1, Len(replaced)) = replaced
              IN StartsWith(out'.events,
                            Replaced(out.events, NonHidden(out'.requests), 1))]_vars

\* What does hold of the requests: one per marker, in order, of its known
\* keys, whatever the splice loop does afterwards.
RequestsOfMarkers ==
    [][WithLibrary =>
           NonHidden(out'.requests) = MarkerRequests(out.events, LibraryKeys)]_vars

(***************************************************************************)
(* Claims about the build as a whole                                       *)
(***************************************************************************)
\* The input files below static/, as paths relative to static/
StaticFiles == {Tail(path) : path \in {p \in input : Len(p) >= 2 /\ p[1] = S_static}}

\* C14: a build that succeeds has copied every file below static/ to the
\* output root, under the file's path relative to static/.
C14_StaticCopied ==
    pc = "done" => \A file \in StaticFiles : file \in DOMAIN output

\* What the build does with them: no output file comes from static/, the
\* output holds the processed pages and nothing else.
OutputIsPagesOnly ==
    DOMAIN output = {OutputPath(slug, Unwrap(site).files[slug]) : slug \in ProcessedSet}

\* Every content file has been processed and written
AllProcessed == pc = "process" /\ Remaining = {}
\* The step from here is Site::format_output over the output directory
FormatPassRuns ==
    /\ pc' \in {"done", "failed"}
    /\ pc' = "done" =>
           output' = [path \in DOMAIN output |-> <<"prettier", output[path]>>]
    /\ pc' = "failed" =>
           result' = Some(Err("Execution of 'prettier' failed"))
DebugIsNotRelease ==
    IsSome(site) => \A slug \in DOMAIN Store : Store[slug].debug = ~release

\* C15 (as the code has it): the release flag sets the debug variable of
\* every Metadata record to its negation, and nothing else: the formatting
\* pass runs after the last content file with either value of the flag.
C15_ReleaseTogglesDebugOnly ==
    [][/\ DebugIsNotRelease'
       /\ AllProcessed => FormatPassRuns]_vars
C15_Witness ==
    /\ pc = "done"
    /\ release
    /\ Len(processed) >= 1
    /\ \A slug \in DOMAIN Store : ~Store[slug].debug
    /\ output = [path \in DOMAIN output |-> <<"prettier", output[path][2]>>]

\* C15 (as stated): the flag also decides whether the formatting pass
\* runs, so that a build made for release is the one that is formatted.
C15_AsStated ==
    [][/\ DebugIsNotRelease'
       /\ AllProcessed =>
              IF release THEN FormatPassRuns ELSE pc' = "done" /\ output' = output]_vars

\* The build has returned
Returned == pc \in {"failed", "done"}
\* This step is a process call of the file CurSlug returning an error
ProcessFails == pc = "step" /\ pc' = "failed"
WrittenPaths(slugs) == {OutputPath(slug, Unwrap(site).files[slug]) : slug \in slugs}
BuildSucceeds == IsSome(result') /\ Unwrap(result').ok

\* C16: the build is fail-fast: when process fails for a file the build
\* returns that error at once (nothing runs after it, the formatting pass
\* included), no file with a slug from the failing one upwards has been
\* processed or written, and the build returns success only when every
\* content file was processed and written.
C16_FailFast ==
    [][/\ ~Returned
       /\ ProcessFails =>
              /\ IsSome(result') /\ ~Unwrap(result').ok
              /\ output' = output /\ processed' = processed
              /\ \A slug \in DOMAIN Unwrap(site).files :
                     ~Lt(slug, CurSlug) => slug \notin ProcessedSet
              /\ DOMAIN output = WrittenPaths(ProcessedSet)
       /\ BuildSucceeds =>
              /\ pc' = "done"
              /\ ProcessedSet = DOMAIN Unwrap(site).files
              /\ DOMAIN output' = WrittenPaths(DOMAIN Unwrap(site).files)]_vars
C16_Witness ==
    /\ pc = "failed"
    /\ IsSome(cur)
    /\ CurSlug \notin ProcessedSet
    /\ Len(processed) >= 1
    /\ Remaining # {}
    /\ WrittenPaths(Remaining \cup {CurSlug}) \cap DOMAIN output = {}

\* The number of events of the span of the nth marker, both ends included
SpanLen(events, n) ==
    MarkerEnd(events, MarkerStarts(events)[n]) - MarkerStarts(events)[n] + 1
HasMarkers == WithLibrary /\ Len(MarkerStarts(out.events)) >= 1
SpliceIsCorrect ==
    /\ pc' = "render_to_string"
    /\ LET Begins(events, replaced) ==
               /\ Len(events) >= Len(replaced)
               /\ SubSeq(events, 1, Len(replaced)) = replaced
       IN Begins(out'.events,
                 Replaced(out.events, MarkerRequests(out.events, LibraryKeys), 1))

\* C17: for a document with one or more well-formed cite markers, of any
\* mix of span sizes, the splice loop ends without an underflow of the
\* running offset or a range outside the list, and leaves every marker's
\* span replaced by the three events of its fragment with all other events
\* kept in their order.
C17_SplicePositions == [][HasMarkers => SpliceIsCorrect]_vars

\* What does hold: the splice is correct when every span has exactly three
\* events (one text event), the case in which the running offset stays 0.
SpliceOfThreeEventSpans ==
    [][(/\ HasMarkers
        /\ \A n \in 1..Len(MarkerStarts(out.events)) : SpanLen(out.events, n) = 3)
           => SpliceIsCorrect]_vars

(***************************************************************************)
(* Claims about the metadata store                                         *)
(***************************************************************************)
StoreAfter == Unwrap(site').metadata

\* C18: a process run for a slug changes no metadata record but the
\* slug's own, in the RenderDjot and in the ApplyTemplate step alike, and
\* the set of slugs of the store is the same throughout rendering.
C18_OwnRecordOnly ==
    [][(IsSome(site) /\ IsSome(site')) =>
           /\ DOMAIN StoreAfter = DOMAIN Store
           /\ \A other \in DOMAIN Store :
                  other # Unwrap(cur') => StoreAfter[other] = Store[other]
           /\ AtStep("ApplyTemplate") => StoreAfter = Store]_vars
C18_Witness ==
    /\ pc = "step"
    /\ step = 3
    /\ IsSome(ctx)
    /\ IsSome(Store[CurSlug].title)
    /\ IsSome(Store[CurSlug].frontmatter)
    /\ Cardinality(DOMAIN Store) >= 2
    /\ \E other \in DOMAIN Store \ {CurSlug} :
           other \in ProcessedSet /\ Store[other].title = None

\* The gathered paths below content/
ContentPaths == {path \in input : path[1] = S_content}
Files == Unwrap(site).files

\* No two of the generated paths with a file name have the same slug
NamedPaths == {path \in Paths : from_path(path).ok}
FromPathInjective ==
    Cardinality({from_path(path).val : path \in NamedPaths}) = Cardinality(NamedPaths)

\* C19: Site::parse gives distinct content paths distinct slugs, which the
\* order of the maps tells apart, so the assertion of
\* MetadataContainer::insert never fails; after a successful parse the
\* store and the content files have the same slugs, one per content path,
\* and the slug being processed has its record.
C19_OneRecordPerSlug ==
    /\ FromPathInjective
    /\ result # Some(Err("panic"))
    /\ IsSome(site) =>
           /\ DOMAIN Store = DOMAIN Files
           /\ Cardinality(DOMAIN Files) = Cardinality(ContentPaths)
           /\ \A path \in ContentPaths : from_path(Tail(path)).val \in DOMAIN Store
           /\ \A s, t \in DOMAIN Files : s # t => cmp(s, t) # "Equal"
           /\ IsSome(cur) => CurSlug \in DOMAIN Store
C19_Witness ==
    /\ pc = "step"
    /\ \E s, t \in DOMAIN Files :
           /\ s # t
           /\ s.parent = t.parent
           /\ s.stem = t.stem
           /\ CurSlug = t
           /\ s \in ProcessedSet

\* C20: when the bibliography is loaded (every marker of the documents is
\* well formed), each entry of the library is submitted exactly once as a
\* hidden request of that entry alone, cited or not, and every hidden
\* request comes after the last request of a marker.
C20_HiddenAfterInline ==
    [][WithLibrary =>
           /\ out'.requests = NonHidden(out'.requests) \o Hidden(out'.requests)
           /\ Len(Hidden(out'.requests)) = Len(LibraryKeys)
           /\ \A i \in 1..Len(LibraryKeys) :
                  Cardinality({j \in 1..Len(out'.requests) :
                                   /\ out'.requests[j].hidden
                                   /\ out'.requests[j].keys = <<LibraryKeys[i]>>}) = 1]_vars
C20_Witness ==
    /\ pc = "render_to_string"
    /\ out.library = Some(Ok(<<<<"q">>, <<"p">>>>))
    /\ Len(NonHidden(out.requests)) = 2
    /\ NonHidden(out.requests)[2].keys = <<<<"p">>>>
    /\ Len(Hidden(out.requests)) = 2
    /\ out.requests[3] = [keys |-> <<<<"q">>>>, hidden |-> TRUE]

(***************************************************************************)
(* Claims about the output paths                                           *)
(***************************************************************************)
\* The path process writes the file of a slug to, relative to the output
\* directory
WrittenPath(slug) == OutputPath(slug, Files[slug])

\* C21: distinct content slugs of a build are written to distinct output
\* paths, so that no file written by process is overwritten by a later
\* process call: the output holds one file per processed content file.
C21_DistinctOutputPaths ==
    IsSome(site) =>
        /\ \A s, t \in DOMAIN Files : s # t => WrittenPath(s) # WrittenPath(t)
        /\ Cardinality(DOMAIN output) = Len(processed)

\* What does hold: two content files are written to one path only if they
\* are in the same directory with the same stem, differing in extension.
OutputCollisionsShareStem ==
    IsSome(site) =>
        \A s, t \in DOMAIN Files :
            WrittenPath(s) = WrittenPath(t) => s.parent = t.parent /\ s.stem = t.stem

====
